---- MODULE Spec2Model ----
(***************************************************************************)
(* Model of App.js: the task list held in React state, the three handlers  *)
(* addTask / toggleTask / deleteTask, the load-on-mount and save-on-change *)
(* effects, and the AsyncStorage item kept under STORAGE_KEY.              *)
(*                                                                         *)
(* JavaScript strings are sequences of one-character strings, so that      *)
(* trim(), toString(), JSON.stringify and JSON.parse are computed and not  *)
(* assumed.                                                                *)
(***************************************************************************)
EXTENDS Integers, Sequences, FiniteSets

\* ------------------------------------------------------------------ bounds
\* Task-list changes made through the UI (committed setTasks calls) in one run.
MaxOps == 3
\* Milliseconds by which Date.now() may advance in one run.
MaxTicks == 1
\* The user acts while fewer setItem calls than this are in flight.
MaxInFlight == 1
\* setItem calls the store rejects in one run.
MaxRejects == 1

\* ----------------------------------------------------------------- strings
DQ == "\""
BS == "\\"
SP == " "

\* String.prototype.trim: strips leading and trailing white space.
WhiteSpace == {SP, "\t", "\n"}

RECURSIVE TrimStart(_)
TrimStart(s) ==
  IF s # <<>> /\ Head(s) \in WhiteSpace THEN TrimStart(Tail(s)) ELSE s

RECURSIVE TrimEnd(_)
TrimEnd(s) ==
  IF s # <<>> /\ s[Len(s)] \in WhiteSpace
  THEN TrimEnd(SubSeq(s, 1, Len(s) - 1))
  ELSE s

\* A faulty Trim: the text is used as typed.
TrimOmitted(s) == s

\* A faulty Trim: only the leading white space is removed (trimStart).
TrimStartOnly(s) == TrimStart(s)

Trim(s) == TrimEnd(TrimStart(s))

\* Number.prototype.toString (radix 10) of a non-negative integer.
Digit(d) == <<"0", "1", "2", "3", "4", "5", "6", "7", "8", "9">>[d + 1]

RECURSIVE ToString(_)
ToString(n) ==
  IF n < 10 THEN <<Digit(n)>> ELSE ToString(n \div 10) \o <<Digit(n % 10)>>

\* -------------------------------------------------------- JSON.stringify
\* Quote: a JSON string literal; the quote and the backslash are escaped.
RECURSIVE EscapeChars(_)
EscapeChars(s) ==
  IF s = <<>> THEN <<>>
  ELSE (IF Head(s) \in {DQ, BS} THEN <<BS, Head(s)>> ELSE <<Head(s)>>)
       \o EscapeChars(Tail(s))

\* A faulty Quote: the characters are written without escapes.
QuoteRaw(s) == <<DQ>> \o s \o <<DQ>>

Quote(s) == <<DQ>> \o EscapeChars(s) \o <<DQ>>

KeyId == <<"i", "d">>
KeyText == <<"t", "e", "x", "t">>
KeyIsCompleted == <<"i", "s", "C", "o", "m", "p", "l", "e", "t", "e", "d">>
LitTrue == <<"t", "r", "u", "e">>
LitFalse == <<"f", "a", "l", "s", "e">>
LitNull == <<"n", "u", "l", "l">>

\* A task object: its own properties in insertion order id, text, isCompleted.
OpenId == <<"{">> \o Quote(KeyId) \o <<":">>
ThenText == <<",">> \o Quote(KeyText) \o <<":">>
ThenIsCompleted == <<",">> \o Quote(KeyIsCompleted) \o <<":">>

StringifyTask(task) ==
  OpenId \o Quote(task.id) \o ThenText \o Quote(task.text) \o ThenIsCompleted
  \o (IF task.isCompleted THEN LitTrue ELSE LitFalse) \o <<"}">>

RECURSIVE StringifyItems(_)
StringifyItems(list) ==
  IF list = <<>> THEN <<>>
  ELSE StringifyTask(Head(list))
       \o (IF Tail(list) = <<>> THEN <<>> ELSE <<",">>)
       \o StringifyItems(Tail(list))

\* JSON.stringify(currentTasks): an array of task objects, or null.
Stringify(isNull, list) ==
  IF isNull THEN LitNull ELSE <<"[">> \o StringifyItems(list) \o <<"]">>

\* ------------------------------------------------------------ JSON.parse
\* A parsed value is a tree: [t |-> "null"], [t |-> "bool", b |-> _],
\* [t |-> "string", s |-> _], [t |-> "array", items |-> _],
\* [t |-> "object", members |-> <<[key |-> _, val |-> _], ...>>].
\* A parse step returns [ok, val, pos]: pos is the index after the value.
\* The grammar covers arrays, objects, strings with the two escapes above,
\* true, false and null; numbers do not occur in this program's blobs.
Fail == [ok |-> FALSE, val |-> [t |-> "null"], pos |-> 0]
Good(v, p) == [ok |-> TRUE, val |-> v, pos |-> p]

RECURSIVE SkipWs(_, _)
SkipWs(s, i) ==
  IF i <= Len(s) /\ s[i] \in WhiteSpace THEN SkipWs(s, i + 1) ELSE i

\* s has the literal lit at index i.
HasLit(s, i, lit) ==
  /\ i + Len(lit) - 1 <= Len(s)
  /\ SubSeq(s, i, i + Len(lit) - 1) = lit

\* The characters of a string literal, from index i (after the opening quote).
RECURSIVE ParseChars(_, _, _)
ParseChars(s, i, acc) ==
  IF i > Len(s) THEN Fail
  ELSE IF s[i] = DQ THEN Good([t |-> "string", s |-> acc], i + 1)
  ELSE IF s[i] = BS
       THEN IF i + 1 <= Len(s) /\ s[i + 1] \in {DQ, BS}
            THEN ParseChars(s, i + 2, Append(acc, s[i + 1]))
            ELSE Fail
  ELSE IF s[i] \in {"\t", "\n"} THEN Fail
  ELSE ParseChars(s, i + 1, Append(acc, s[i]))

RECURSIVE ParseValue(_, _)
RECURSIVE ParseElements(_, _, _)
RECURSIVE ParseMembers(_, _, _)

\* After "[" or ",": a value, then "," or "]".
ParseElements(s, i, acc) ==
  LET r == ParseValue(s, i)
      j == SkipWs(s, r.pos)
  IN  IF ~r.ok \/ j > Len(s) THEN Fail
      ELSE IF s[j] = "]" THEN Good([t |-> "array", items |-> Append(acc, r.val)], j + 1)
      ELSE IF s[j] = "," THEN ParseElements(s, j + 1, Append(acc, r.val))
      ELSE Fail

\* After "{" or ",": a string key, ":", a value, then "," or "}".
ParseMembers(s, i, acc) ==
  LET k == SkipWs(s, i)
      key == IF k <= Len(s) /\ s[k] = DQ THEN ParseChars(s, k + 1, <<>>) ELSE Fail
      c == SkipWs(s, key.pos)
      r == IF key.ok /\ c <= Len(s) /\ s[c] = ":" THEN ParseValue(s, c + 1) ELSE Fail
      j == SkipWs(s, r.pos)
      m == [key |-> key.val.s, val |-> r.val]
  IN  IF ~r.ok \/ j > Len(s) THEN Fail
      ELSE IF s[j] = "}" THEN Good([t |-> "object", members |-> Append(acc, m)], j + 1)
      ELSE IF s[j] = "," THEN ParseMembers(s, j + 1, Append(acc, m))
      ELSE Fail

ParseValue(s, i0) ==
  LET i == SkipWs(s, i0)
  IN  IF i > Len(s) THEN Fail
      ELSE IF s[i] = "["
           THEN LET j == SkipWs(s, i + 1)
                IN  IF j <= Len(s) /\ s[j] = "]"
                    THEN Good([t |-> "array", items |-> <<>>], j + 1)
                    ELSE ParseElements(s, i + 1, <<>>)
      ELSE IF s[i] = "{"
           THEN LET j == SkipWs(s, i + 1)
                IN  IF j <= Len(s) /\ s[j] = "}"
                    THEN Good([t |-> "object", members |-> <<>>], j + 1)
                    ELSE ParseMembers(s, i + 1, <<>>)
      ELSE IF s[i] = DQ THEN ParseChars(s, i + 1, <<>>)
      ELSE IF HasLit(s, i, LitTrue) THEN Good([t |-> "bool", b |-> TRUE], i + 4)
      ELSE IF HasLit(s, i, LitFalse) THEN Good([t |-> "bool", b |-> FALSE], i + 5)
      ELSE IF HasLit(s, i, LitNull) THEN Good([t |-> "null"], i + 4)
      ELSE Fail

\* JSON.parse(text): ok is FALSE where JSON.parse throws a SyntaxError.
Parse(text) ==
  LET r == ParseValue(text, 1)
  IN  IF r.ok /\ SkipWs(text, r.pos) = Len(text) + 1 THEN r ELSE Fail

\* ------------------------------------------------------------------ state
VARIABLES
  tasks,       \* useState([]): the task array, newest first
  tasksIsNull, \* TRUE when the tasks state holds null (JSON.parse of "null")
  taskText,    \* useState(''): the pending input text
  now,         \* the value Date.now() returned last
  storage,     \* the AsyncStorage item under STORAGE_KEY
  loadPc,      \* loadTasks: "reading", "resolved" or "done"
  loadResult,  \* what getItem settled with, once loadPc = "resolved"
  pending,     \* payloads of the setItem calls in flight, in call order
  alerts,      \* Alert.alert calls so far, by title
  crashed,     \* an updater threw during render: the component tree is gone
  nOps,        \* task-list changes made through the UI so far
  last         \* the latest UI event or hydration handled

vars ==
  <<tasks, tasksIsNull, taskText, now, storage, loadPc, loadResult, pending,
    alerts, crashed, nOps, last>>

\* An item of the store: getItem resolves to null when the key is absent.
Absent == [present |-> FALSE, value |-> <<>>]
Item(text) == [present |-> TRUE, value |-> text]

\* Tasks saved by an earlier run of the app; their ids are earlier timestamps.
StoredTask == [id |-> ToString(1), text |-> <<DQ, "b">>, isCompleted |-> TRUE]
StoredLists == {<<StoredTask>>}
StartTime == Len(<<StoredTask>>) + 1

\* Blobs that are no serialization of a task list.
Unparseable == <<"[", "{">>
CorruptBlobs == {Unparseable, LitNull}

\* What the store may hold under the key when the app starts.
InitialItems ==
  {Absent} \cup {Item(Stringify(FALSE, l)) : l \in StoredLists}
           \cup {Item(b) : b \in CorruptBlobs}

\* Texts the user may type into the input field: nothing, white space only,
\* and a text to trim that holds a character JSON escapes.
Inputs == {<<>>, <<SP, SP>>, <<SP, "a", DQ, SP>>}

\* An id no task ever carries (Date.now() is positive).
NoSuchId == ToString(0)

\* const generateId = () => Date.now().toString();
generateId(time) == ToString(time)

\* saveTasks(currentTasks): the payload of its setItem call.
saveTasks(isNull, currentTasks) == Stringify(isNull, currentTasks)

\* An event as kept in last: the handler, the id it was given, whether it
\* committed a setTasks, and whether it repeats the event before it (same
\* handler, same id, both committed). A toggle also keeps the list it met
\* (before) and, when it repeats, the list the toggle before it met (origin).
Event(op, id, done) ==
  LET again == last.op = op /\ last.id = id /\ last.done /\ done
  IN  [op |-> op, id |-> id, done |-> done, again |-> again,
       before |-> IF op = "toggle" THEN tasks ELSE <<>>,
       origin |-> IF op = "toggle" /\ again THEN last.before ELSE <<>>]
NoEvent ==
  [op |-> "none", id |-> NoSuchId, done |-> FALSE, again |-> FALSE,
   before |-> <<>>, origin |-> <<>>]

\* After the first render both mount effects have run: loadTasks() has called
\* getItem and saveTasks([]) has called setItem with the initial empty array.
Init ==
  /\ tasks = <<>>
  /\ tasksIsNull = FALSE
  /\ taskText = <<>>
  /\ now = StartTime
  /\ storage \in InitialItems
  /\ loadPc = "reading"
  /\ loadResult = [status |-> "none", item |-> Absent]
  /\ pending = <<saveTasks(FALSE, <<>>)>>
  /\ alerts = [load |-> 0, save |-> 0]
  /\ crashed = FALSE
  /\ nOps = 0
  /\ last = NoEvent

\* ---------------------------------------------------------------- updaters
\* A faulty AddUpdater: the new task is put last.
AddUpdaterAppends(prevTasks, newTask) == Append(prevTasks, newTask)

\* prevTasks => [newTask, ...prevTasks]
AddUpdater(prevTasks, newTask) == <<newTask>> \o prevTasks

\* A faulty ToggleUpdater: the task is marked completed, not inverted.
ToggleUpdaterCompletes(prevTasks, id) ==
  [i \in 1..Len(prevTasks) |->
     IF prevTasks[i].id = id
     THEN [prevTasks[i] EXCEPT !.isCompleted = TRUE]
     ELSE prevTasks[i]]

\* A faulty ToggleUpdater: the comparison is !== where === is meant.
ToggleUpdaterOthers(prevTasks, id) ==
  [i \in 1..Len(prevTasks) |->
     IF prevTasks[i].id # id
     THEN [prevTasks[i] EXCEPT !.isCompleted = ~prevTasks[i].isCompleted]
     ELSE prevTasks[i]]

\* prevTasks => prevTasks.map(task =>
\*   task.id === id ? {...task, isCompleted: !task.isCompleted} : task)
ToggleUpdater(prevTasks, id) ==
  [i \in 1..Len(prevTasks) |->
     IF prevTasks[i].id = id
     THEN [prevTasks[i] EXCEPT !.isCompleted = ~prevTasks[i].isCompleted]
     ELSE prevTasks[i]]

\* A faulty DeleteUpdater: the comparison is === where !== is meant.
DeleteUpdaterKeepsMatch(prevTasks, id) ==
  LET Keep(task) == task.id = id IN SelectSeq(prevTasks, Keep)

\* prevTasks => prevTasks.filter(task => task.id !== id)
DeleteUpdater(prevTasks, id) ==
  LET Keep(task) == task.id # id IN SelectSeq(prevTasks, Keep)

\* useEffect(() => { saveTasks(tasks); }, [tasks]): a new tasks value is
\* rendered and the effect makes one setItem call with it.
SaveEffect(isNull, newTasks) ==
  /\ pending' = Append(pending, saveTasks(isNull, newTasks))

\* A faulty Commit: the effect's dependency list is [] and it does not run.
CommitUnsaved(newTasks) ==
  /\ tasks' = newTasks
  /\ nOps' = nOps + 1
  /\ UNCHANGED pending

\* A setTasks made by a UI handler, through to the effect it causes.
Commit(newTasks) ==
  /\ tasks' = newTasks
  /\ SaveEffect(FALSE, newTasks)
  /\ nOps' = nOps + 1

\* The updater runs on null and throws a TypeError while rendering.
Crash ==
  /\ crashed' = TRUE
  /\ UNCHANGED <<tasks, tasksIsNull, taskText, pending, nOps>>

\* The user can act: the screen is up and the bounds leave room.
Ready ==
  /\ ~crashed
  /\ nOps < MaxOps
  /\ Len(pending) < MaxInFlight

\* ------------------------------------------------------------------ events
\* onChangeText={setTaskText}
setTaskText(text) ==
  /\ Ready
  /\ text # taskText
  /\ taskText' = text
  /\ UNCHANGED <<tasks, tasksIsNull, now, storage, loadPc, loadResult, pending,
                 alerts, crashed, nOps, last>>

\* addTask, with time the value Date.now() returns if the id is generated.
addTask(time) ==
  /\ Ready
  /\ last' = Event("add", NoSuchId, Trim(taskText) # <<>> /\ ~tasksIsNull)
  /\ IF Trim(taskText) = <<>>
     THEN UNCHANGED <<tasks, tasksIsNull, taskText, now, pending, crashed, nOps>>
     ELSE /\ now' = time
          /\ IF tasksIsNull
             THEN Crash
             ELSE LET newTask == [id |-> generateId(time),
                                  text |-> Trim(taskText),
                                  isCompleted |-> FALSE]
                  IN  /\ Commit(AddUpdater(tasks, newTask))
                      /\ taskText' = <<>>
                      /\ UNCHANGED <<tasksIsNull, crashed>>
  /\ UNCHANGED <<storage, loadPc, loadResult, alerts>>

toggleTask(id) ==
  /\ Ready
  /\ last' = Event("toggle", id, ~tasksIsNull)
  /\ IF tasksIsNull
     THEN Crash
     ELSE /\ Commit(ToggleUpdater(tasks, id))
          /\ UNCHANGED <<tasksIsNull, taskText, crashed>>
  /\ UNCHANGED <<now, storage, loadPc, loadResult, alerts>>

deleteTask(id) ==
  /\ Ready
  /\ last' = Event("delete", id, ~tasksIsNull)
  /\ IF tasksIsNull
     THEN Crash
     ELSE /\ Commit(DeleteUpdater(tasks, id))
          /\ UNCHANGED <<tasksIsNull, taskText, crashed>>
  /\ UNCHANGED <<now, storage, loadPc, loadResult, alerts>>

\* Ids the view or a caller may pass: those on screen and one that is not.
TaskIds(list) == {list[i].id : i \in 1..Len(list)}
IdArgs == TaskIds(tasks) \cup {NoSuchId}

\* Values Date.now() may return next: the clock does not run backwards.
Times == {t \in now..(now + 1) : t <= StartTime + MaxTicks}

\* ------------------------------------------------------------- AsyncStorage
\* The store serves the getItem call: it resolves with the item as it is now.
GetItemResolves ==
  /\ loadPc = "reading"
  /\ loadPc' = "resolved"
  /\ loadResult' = [status |-> "resolved", item |-> storage]
  /\ UNCHANGED <<tasks, tasksIsNull, taskText, now, storage, pending, alerts,
                 crashed, nOps, last>>

\* The store fails the getItem call.
GetItemRejects ==
  /\ loadPc = "reading"
  /\ loadPc' = "resolved"
  /\ loadResult' = [status |-> "rejected", item |-> Absent]
  /\ UNCHANGED <<tasks, tasksIsNull, taskText, now, storage, pending, alerts,
                 crashed, nOps, last>>

\* An object's property: the last member of that name.
Field(obj, key) ==
  LET i == CHOOSE i \in 1..Len(obj.members) :
             /\ obj.members[i].key = key
             /\ \A j \in (i + 1)..Len(obj.members) : obj.members[j].key # key
  IN  obj.members[i].val

\* A faulty AsTasks: every loaded task comes back pending.
AsTasksPending(items) ==
  [i \in 1..Len(items) |->
     [id |-> Field(items[i], KeyId).s,
      text |-> Field(items[i], KeyText).s,
      isCompleted |-> FALSE]]

\* The parsed array as task records. Every array the store holds in this
\* model is an array of task objects.
AsTasks(items) ==
  [i \in 1..Len(items) |->
     [id |-> Field(items[i], KeyId).s,
      text |-> Field(items[i], KeyText).s,
      isCompleted |-> Field(items[i], KeyIsCompleted).b]]

\* loadTasks after its await: the try block's remainder, or the catch block.
loadTasks ==
  /\ loadPc = "resolved"
  /\ loadPc' = "done"
  /\ LET item == loadResult.item
         Caught == /\ alerts' = [alerts EXCEPT !.load = alerts.load + 1]
                   /\ UNCHANGED <<tasks, tasksIsNull, pending, last>>
         Nothing == UNCHANGED <<tasks, tasksIsNull, pending, alerts, last>>
     IN  IF loadResult.status = "rejected" THEN Caught
         ELSE IF ~item.present \/ item.value = <<>> THEN Nothing
         ELSE \E parsed \in {Parse(item.value)} :
                IF ~parsed.ok THEN Caught
                ELSE /\ last' = Event("hydrate", NoSuchId, TRUE)
                     /\ tasksIsNull' = (parsed.val.t = "null")
                     /\ tasks' = IF parsed.val.t = "null" THEN <<>>
                                 ELSE AsTasks(parsed.val.items)
                     /\ SaveEffect(tasksIsNull', tasks')
                     /\ UNCHANGED alerts
  /\ UNCHANGED <<taskText, now, storage, loadResult, crashed, nOps>>

\* pending without its i-th call.
Without(calls, i) == SubSeq(calls, 1, i - 1) \o SubSeq(calls, i + 1, Len(calls))

\* The store completes one setItem call; calls in flight complete in any order.
SetItemResolves(i) ==
  /\ storage' = Item(pending[i])
  /\ pending' = Without(pending, i)
  /\ UNCHANGED <<tasks, tasksIsNull, taskText, now, loadPc, loadResult, alerts,
                 crashed, nOps, last>>

\* A faulty SetItemRejects: the catch block calls saveTasks again.
SetItemRejectsRetries(i) ==
  /\ alerts.save < MaxRejects
  /\ pending' = Append(Without(pending, i), pending[i])
  /\ alerts' = [alerts EXCEPT !.save = alerts.save + 1]
  /\ UNCHANGED <<tasks, tasksIsNull, taskText, now, storage, loadPc,
                 loadResult, crashed, nOps, last>>

\* The store rejects one setItem call: saveTasks' catch block alerts.
SetItemRejects(i) ==
  /\ alerts.save < MaxRejects
  /\ pending' = Without(pending, i)
  /\ alerts' = [alerts EXCEPT !.save = alerts.save + 1]
  /\ UNCHANGED <<tasks, tasksIsNull, taskText, now, storage, loadPc,
                 loadResult, crashed, nOps, last>>

Next ==
  \/ \E text \in Inputs : setTaskText(text)
  \/ \E time \in Times : addTask(time)
  \/ \E id \in IdArgs : toggleTask(id)
  \/ \E id \in IdArgs : deleteTask(id)
  \/ GetItemResolves
  \/ GetItemRejects
  \/ loadTasks
  \/ \E i \in 1..Len(pending) : SetItemResolves(i)
  \/ \E i \in 1..Len(pending) : SetItemRejects(i)

Spec == Init /\ [][Next]_vars

\* ------------------------------------------------------------- properties
\* Helpers of the properties below; none of them uses Trim or an updater.
IsBlank(s) == \A i \in 1..Len(s) : s[i] \in WhiteSpace

\* t is s without its leading and trailing white space.
IsTrimOf(t, s) ==
  /\ t # <<>> => t[1] \notin WhiteSpace /\ t[Len(t)] \notin WhiteSpace
  /\ \E a \in 0..Len(s) :
       /\ a + Len(t) <= Len(s)
       /\ SubSeq(s, a + 1, a + Len(t)) = t
       /\ \A i \in 1..a : s[i] \in WhiteSpace
       /\ \A i \in (a + Len(t) + 1)..Len(s) : s[i] \in WhiteSpace

Flipped(task) ==
  [id |-> task.id, text |-> task.text, isCompleted |-> ~task.isCompleted]

\* blob is the JSON text of an array whose elements are objects with exactly
\* the members id (string), text (string) and isCompleted (boolean).
IsTaskObject(v) ==
  /\ v.t = "object"
  /\ Len(v.members) = 3
  /\ {v.members[i].key : i \in 1..3} = {KeyId, KeyText, KeyIsCompleted}
  /\ Field(v, KeyId).t = "string"
  /\ Field(v, KeyText).t = "string"
  /\ Field(v, KeyIsCompleted).t = "bool"

WellFormed(blob) ==
  \E parsed \in {Parse(blob)} :
    /\ parsed.ok
    /\ parsed.val.t = "array"
    /\ \A i \in 1..Len(parsed.val.items) : IsTaskObject(parsed.val.items[i])

\* Nothing is in flight: the startup read is over and no setItem call is pending.
Quiescent == loadPc = "done" /\ pending = <<>>

\* C1: an add whose input has a non-blank trimmed form makes the list one
\* longer, puts first a pending task whose text is the trimmed input, and
\* keeps every earlier task, unchanged and in order, one place further down.
C1_AddPrepends ==
  [][\A time \in Times :
       (addTask(time) /\ ~IsBlank(taskText) /\ ~tasksIsNull) =>
         /\ Len(tasks') = Len(tasks) + 1
         /\ IsTrimOf(tasks'[1].text, taskText)
         /\ tasks'[1].isCompleted = FALSE
         /\ \A i \in 1..Len(tasks) : tasks'[i + 1] = tasks[i]]_vars

\* An add has put a trimmed text in front of an earlier task.
C1_Witness ==
  /\ last.op = "add" /\ last.done
  /\ Len(tasks) >= 2
  /\ tasks[1].text = <<"a", DQ>>
  /\ ~tasks[1].isCompleted

\* C2: no two tasks of the list carry the same id, whatever the timing of
\* the adds.
C2_UniqueIds ==
  \A i, j \in 1..Len(tasks) : i # j => tasks[i].id # tasks[j].id

\* C3: toggle(k) for an id k of the list inverts isCompleted of exactly one
\* task, the one with id k, and leaves every other task, the length and the
\* order as they were.
C3_ToggleFlipsExactlyOne ==
  (last.op = "toggle" /\ last.done /\ last.id \in TaskIds(last.before)) =>
    /\ Len(tasks) = Len(last.before)
    /\ Cardinality({i \in 1..Len(tasks) : tasks[i] # last.before[i]}) = 1
    /\ \A i \in 1..Len(tasks) :
         tasks[i] = IF last.before[i].id = last.id
                    THEN Flipped(last.before[i])
                    ELSE last.before[i]

\* C4: delete(k) for an id k of the list removes exactly one task, the one
\* with id k: the list is one shorter and the others keep value and order.
C4_DeleteRemovesExactlyOne ==
  [][\A k \in TaskIds(tasks) :
       (deleteTask(k) /\ ~tasksIsNull) =>
         /\ Len(tasks') = Len(tasks) - 1
         /\ \E i \in 1..Len(tasks) :
              /\ tasks[i].id = k
              /\ tasks' = Without(tasks, i)]_vars

\* C5: once nothing is in flight and no write was rejected, the blob under
\* the key deserializes to the in-memory list, whatever the order in which
\* the reads and writes completed.
C5_StoreMatchesMemory ==
  (Quiescent /\ alerts.save = 0 /\ ~tasksIsNull) =>
    /\ storage.present
    /\ WellFormed(storage.value)
    /\ AsTasks(Parse(storage.value).val.items) = tasks

\* C6: a blob that is no well-formed serialization of a task list makes the
\* hydration report a failure and leave the list a list, and no later add,
\* toggle or delete crashes.
C6_CorruptBlobFailsSafely ==
  (/\ loadPc = "done"
   /\ loadResult.status = "resolved"
   /\ loadResult.item.present
   /\ ~WellFormed(loadResult.item.value)) =>
    /\ alerts.load = 1
    /\ ~tasksIsNull
    /\ ~crashed

\* C7: hydration from a present well-formed blob makes the list exactly the
\* list that blob serializes, whatever was in memory; from an absent key it
\* leaves the list as it is (empty when no event came first) and alerts
\* nothing.
C7_HydrateReplacesOrKeeps ==
  [][(loadTasks /\ loadResult.status = "resolved") =>
       /\ ~loadResult.item.present =>
            /\ tasks' = tasks
            /\ tasksIsNull' = tasksIsNull
            /\ alerts' = alerts
            /\ nOps = 0 => tasks' = <<>>
       /\ (loadResult.item.present /\ WellFormed(loadResult.item.value)) =>
            /\ ~tasksIsNull'
            /\ Stringify(FALSE, tasks') = loadResult.item.value
            /\ alerts' = alerts]_vars

\* The stored list has replaced a list the user had already added to.
C7_Witness ==
  /\ last.op = "hydrate"
  /\ nOps >= 1
  /\ tasks = <<StoredTask>>

\* C8: an add whose input is empty or all white space changes nothing in the
\* list and issues no write.
C8_BlankAddIsNoOp ==
  [][\A time \in Times :
       (addTask(time) /\ IsBlank(taskText)) =>
         UNCHANGED <<tasks, tasksIsNull, pending, storage>>]_vars

\* An add of white space has been handled on a non-empty list.
C8_Witness ==
  /\ last.op = "add" /\ ~last.done
  /\ taskText = <<SP, SP>>
  /\ tasks # <<>>
  /\ ~crashed

\* C9: two toggles of the same id of the list, one right after the other,
\* give back the list as it was before the first.
C9_ToggleTwiceRestores ==
  (last.op = "toggle" /\ last.again /\ last.id \in TaskIds(last.origin)) =>
    tasks = last.origin

\* A task of the list has been toggled twice in a row.
C9_Witness ==
  /\ last.op = "toggle" /\ last.again
  /\ last.id \in TaskIds(last.origin)
  /\ Len(tasks) >= 2

\* C10: a toggle with an id that no task of the list carries leaves the list
\* as it was: same tasks, same values, same order.
C10_ToggleAbsentKeepsList ==
  (last.op = "toggle" /\ last.done /\ last.id \notin TaskIds(last.before)) =>
    tasks = last.before

\* A toggle with an unknown id has been handled on a non-empty list.
C10_Witness ==
  /\ last.op = "toggle" /\ last.done
  /\ last.id \notin TaskIds(last.before)
  /\ Len(last.before) >= 2

\* C11: a delete with an id that no task of the list carries leaves the list
\* as it was, and one setItem call carrying that unchanged list is still made.
C11_DeleteAbsentStillWrites ==
  [][\A k \in IdArgs \ TaskIds(tasks) :
       (deleteTask(k) /\ ~tasksIsNull) =>
         /\ tasks' = tasks
         /\ Len(pending') = Len(pending) + 1
         /\ SubSeq(pending', 1, Len(pending)) = pending
         /\ WellFormed(pending'[Len(pending')])
         /\ Stringify(FALSE, tasks) = pending'[Len(pending')]]_vars

\* A delete with an unknown id has been handled on a non-empty list and its
\* setItem call is in flight.
C11_Witness ==
  /\ last.op = "delete" /\ last.done
  /\ last.id = NoSuchId
  /\ tasks # <<>>
  /\ pending = <<Stringify(FALSE, tasks)>>

\* The list a blob deserializes to; the blob is the text of an array of tasks.
Deserialized(blob) == AsTasks(Parse(blob).val.items)

\* C12: serializing the list and deserializing the result gives back the
\* list, equal in every task's id, text and isCompleted and in order.
C12_RoundTrip ==
  ~tasksIsNull =>
    \E blob \in {Stringify(FALSE, tasks)} :
      /\ WellFormed(blob)
      /\ Deserialized(blob) = tasks

\* A list of two added tasks with a quote in their text, one of them
\* completed by a toggle, has been reached.
C12_Witness ==
  /\ Len(tasks) = 2
  /\ \A i \in 1..2 : tasks[i].text = <<"a", DQ>>
  /\ tasks[1].isCompleted # tasks[2].isCompleted
  /\ last.op = "toggle" /\ last.done

\* A step that changes the task list: a committed add, toggle or delete, or
\* the hydration putting the parsed value in place.
ChangeStep ==
  \/ nOps' # nOps
  \/ loadPc = "resolved" /\ loadPc' = "done" /\ last'.op = "hydrate"

\* C13: every change of the list makes exactly one setItem call, placed after
\* the calls made for the earlier changes, whose payload is the whole list as
\* it is right after the change; no other step makes a call.
C13_OneWritePerChange ==
  [][/\ ChangeStep =>
          /\ Len(pending') = Len(pending) + 1
          /\ SubSeq(pending', 1, Len(pending)) = pending
          /\ pending'[Len(pending')] = Stringify(tasksIsNull', tasks')
     /\ ~ChangeStep =>
          /\ Len(pending') <= Len(pending)
          /\ tasks' = tasks]_vars

\* Two changes have been handled and the call of the later one is in flight
\* with the list as that change left it.
C13_Witness ==
  /\ nOps >= 2
  /\ last.op = "delete" /\ last.done /\ last.id # NoSuchId
  /\ tasks # <<>>
  /\ pending = <<Stringify(FALSE, tasks)>>

\* C14: a rejected setItem call raises one save alert, leaves the list with
\* the change that caused the call, is not made again, and leaves the store
\* as it was; after a rejection every add, toggle or delete the bounds allow
\* is still possible and makes its own call.
C14_RejectedWriteOnlyAlerts ==
  /\ [][/\ \A i \in 1..Len(pending) :
             SetItemRejects(i) =>
               /\ alerts'.save = alerts.save + 1
               /\ alerts'.load = alerts.load
               /\ tasks' = tasks /\ tasksIsNull' = tasksIsNull
               /\ Len(pending') = Len(pending) - 1
               /\ storage' = storage
               /\ crashed' = crashed
        /\ (alerts.save > 0 /\ nOps' # nOps) =>
             /\ Len(pending') = Len(pending) + 1
             /\ pending'[Len(pending')] = Stringify(FALSE, tasks')]_vars
  /\ [](/\ alerts.save > 0
        /\ ~crashed /\ ~tasksIsNull
        /\ nOps < MaxOps /\ Len(pending) < MaxInFlight
        => /\ ENABLED (\E id \in IdArgs : toggleTask(id))
           /\ ENABLED (\E id \in IdArgs : deleteTask(id))
           /\ ENABLED (\E time \in Times : addTask(time)))

\* The call made for a change was rejected: the list keeps the change, the
\* store does not have it, and a later change has its own call in flight.
C14_Witness ==
  /\ alerts.save = 1
  /\ nOps >= 2
  /\ tasks # <<>>
  /\ pending = <<Stringify(FALSE, tasks)>>
  /\ storage = Item(Stringify(FALSE, <<>>))

\* C15: no add, toggle or delete changes the list while the startup read of
\* the store is still in flight: every such change comes after loadTasks has
\* finished (with a list, with nothing, or with an alert).
C15_NoChangeBeforeHydration ==
  [][(nOps' # nOps /\ tasks' # tasks) => loadPc = "done"]_vars

\* s can be obtained from t by leaving elements out, the rest kept in order.
RECURSIVE IsSubseq(_, _)
IsSubseq(s, t) ==
  IF s = <<>> THEN TRUE
  ELSE IF t = <<>> THEN FALSE
  ELSE IF Head(s) = Head(t) THEN IsSubseq(Tail(s), Tail(t))
  ELSE IsSubseq(s, Tail(t))

\* The clock value an id was generated from.
IdTime(id) == CHOOSE n \in 0..(StartTime + MaxTicks) : ToString(n) = id

\* C16: the list is in newest-first insertion order. In every state the
\* creation times never increase from the head of the list to its end; an add
\* puts the new task in front of the list it met and leaves that list as it
\* was behind it; a toggle keeps every task at its position; a delete leaves
\* the remaining tasks in the order they had.
C16_NewestFirst ==
  /\ [](\A i, j \in 1..Len(tasks) :
          i < j => IdTime(tasks[i].id) >= IdTime(tasks[j].id))
  /\ [][nOps' # nOps =>
          /\ last'.op = "add" =>
               /\ Len(tasks') = Len(tasks) + 1
               /\ Tail(tasks') = tasks
               /\ tasks'[1].id = generateId(now')
          /\ last'.op = "toggle" =>
               /\ Len(tasks') = Len(tasks)
               /\ \A i \in 1..Len(tasks) :
                    /\ tasks'[i].id = tasks[i].id
                    /\ tasks'[i].text = tasks[i].text
          /\ last'.op = "delete" => IsSubseq(tasks', tasks)]_vars

\* A list with an older hydrated task behind a newer added one, after another
\* added task was deleted from it.
C16_Witness ==
  /\ last.op = "delete" /\ last.done /\ last.id # NoSuchId
  /\ Len(tasks) = 2
  /\ tasks[2] = StoredTask
  /\ IdTime(tasks[1].id) > IdTime(tasks[2].id)

\* C17: a task's id and text are fixed from its creation on, and its text is
\* never empty and has no white space at either end. An add creates a pending
\* task from the trimmed input and leaves every task it met untouched; a toggle
\* changes nothing but isCompleted, and that only of the tasks carrying the id
\* it was given; a delete leaves every remaining task as it was; a step that
\* is none of these and not the hydration leaves the list alone.
C17_OnlyToggleChangesATask ==
  /\ [](\A i \in 1..Len(tasks) :
          /\ tasks[i].text # <<>>
          /\ tasks[i].text[1] \notin WhiteSpace
          /\ tasks[i].text[Len(tasks[i].text)] \notin WhiteSpace)
  /\ [][/\ (nOps' # nOps /\ last'.op = "add") =>
             /\ Tail(tasks') = tasks
             /\ IsTrimOf(tasks'[1].text, taskText)
             /\ ~tasks'[1].isCompleted
        /\ (nOps' # nOps /\ last'.op = "toggle") =>
             /\ Len(tasks') = Len(tasks)
             /\ \A i \in 1..Len(tasks) :
                  /\ tasks'[i].id = tasks[i].id
                  /\ tasks'[i].text = tasks[i].text
                  /\ tasks'[i].isCompleted # tasks[i].isCompleted
                       => tasks[i].id = last'.id
        /\ (nOps' # nOps /\ last'.op = "delete") => IsSubseq(tasks', tasks)
        /\ ~ChangeStep => tasks' = tasks]_vars

\* A task typed with white space around it has been added and then completed
\* by a toggle, while the hydrated task behind it kept its state.
C17_Witness ==
  /\ last.op = "toggle" /\ last.done
  /\ Len(tasks) = 2
  /\ tasks[1].text = <<"a", DQ>> /\ tasks[1].isCompleted
  /\ last.id = tasks[1].id
  /\ tasks[2] = StoredTask

\* C18: starting the app does not replace saved tasks by an empty list. While
\* the user has changed nothing, a store that holds a non-empty task list
\* still holds a blob that deserializes to that list after every step, and no
\* setItem call with the empty list as payload is under way.
C18_StartupKeepsStoredTasks ==
  [][\A l \in StoredLists :
       (l # <<>> /\ nOps = 0 /\ nOps' = 0 /\ storage = Item(Stringify(FALSE, l)))
         => /\ storage' # Absent
            /\ Deserialized(storage'.value) = l
            /\ \A i \in 1..Len(pending') :
                 pending'[i] # Stringify(FALSE, <<>>)]_vars

====
